---- MODULE Spec2Model ----
(***************************************************************************)
(* The 5 Whys wizard: FiveWhysApp (the controller) and WhyCard (the step   *)
(* presenter).  A text is a sequence of one-character strings, so that the *)
(* regular expressions of the sanitizer and of the zod schemas are         *)
(* computed character by character.                                        *)
(***************************************************************************)
EXTENDS Integers, Sequences, FiniteSets, TLC

VARIABLES problem, isStarted, whySteps, currentStep, error, cards, accepted, lastSubmit

vars == <<problem, isStarted, whySteps, currentStep, error, cards, accepted, lastSubmit>>

(***************************************************************************)
(* Characters and JavaScript string primitives                             *)
(***************************************************************************)
UpperCase == <<"A","B","C","D","E","F","G","H","I","J","K","L","M",
               "N","O","P","Q","R","S","T","U","V","W","X","Y","Z">>

LowerCase == <<"a","b","c","d","e","f","g","h","i","j","k","l","m",
               "n","o","p","q","r","s","t","u","v","w","x","y","z">>

Digits == {"0","1","2","3","4","5","6","7","8","9"}

\* the i flag of a regular expression: compare characters up to case
UpperCaseLetters == {UpperCase[i] : i \in 1..26}

Lower(c) ==
    IF c \in UpperCaseLetters
    THEN LowerCase[CHOOSE i \in 1..26 : UpperCase[i] = c]
    ELSE c

\* \w of a regular expression: [A-Za-z0-9_]
WordCharacters ==
    UpperCaseLetters \cup {LowerCase[i] : i \in 1..26} \cup Digits \cup {"_"}

IsWord(c) == c \in WordCharacters

\* the white space String.prototype.trim removes
IsSpace(c) == c \in {" ", "\t", "\n"}

\* String.prototype.trim
trim(s) ==
    IF \A i \in 1..Len(s) : IsSpace(s[i])
    THEN <<>>
    ELSE LET first == CHOOSE i \in 1..Len(s) :
                          ~IsSpace(s[i]) /\ \A k \in 1..(i-1) : IsSpace(s[k])
             last  == CHOOSE i \in 1..Len(s) :
                          ~IsSpace(s[i]) /\ \A k \in (i+1)..Len(s) : IsSpace(s[k])
         IN  SubSeq(s, first, last)

\* the literal pat occurs in s at index i, compared up to case
MatchAt(s, i, pat) ==
    /\ i + Len(pat) - 1 <= Len(s)
    /\ \A k \in 1..Len(pat) : Lower(s[i + k - 1]) = pat[k]

ScriptTag == <<"<","s","c","r","i","p","t">>

JavascriptScheme == <<"j","a","v","a","s","c","r","i","p","t",":">>

\* the index of the ">" closing a match of <[^>]*> that starts at i, or 0
TagEnd(s, i) ==
    IF i <= Len(s) /\ s[i] = "<" /\ \E j \in (i+1)..Len(s) : s[j] = ">"
    THEN CHOOSE j \in (i+1)..Len(s) :
             s[j] = ">" /\ \A k \in (i+1)..(j-1) : s[k] # ">"
    ELSE 0

\* the index of the "=" ending a match of on\w+= (i flag) that starts at i, or 0:
\* the greedy \w+ takes the whole run of word characters, "=" is no word character
HandlerEnd(s, i) ==
    IF /\ i + 3 <= Len(s)
       /\ Lower(s[i]) = "o"
       /\ Lower(s[i+1]) = "n"
       /\ IsWord(s[i+2])
       /\ \E j \in (i+3)..Len(s) : s[j] = "=" /\ \A k \in (i+2)..(j-1) : IsWord(s[k])
    THEN CHOOSE j \in (i+3)..Len(s) : s[j] = "=" /\ \A k \in (i+2)..(j-1) : IsWord(s[k])
    ELSE 0

\* the least element of a non-empty set of indices
Least(S) == CHOOSE m \in S : \A k \in S : m <= k

\* String.prototype.replace with a g-flagged pattern and "": the leftmost match
\* at or after i is found, the text before it is kept, and the scan resumes
\* behind the match
RECURSIVE StripTags(_, _)
\* value.replace(/<[^>]*>/g, "") from index i on
StripTags(s, i) ==
    LET starts == {j \in i..Len(s) : TagEnd(s, j) # 0}
    IN  IF starts = {} THEN SubSeq(s, i, Len(s))
        ELSE SubSeq(s, i, Least(starts) - 1)
                 \o StripTags(s, TagEnd(s, Least(starts)) + 1)

RECURSIVE StripJavascript(_, _)
\* value.replace(/javascript:/gi, "") from index i on
StripJavascript(s, i) ==
    LET starts == {j \in i..Len(s) : MatchAt(s, j, JavascriptScheme)}
    IN  IF starts = {} THEN SubSeq(s, i, Len(s))
        ELSE SubSeq(s, i, Least(starts) - 1)
                 \o StripJavascript(s, Least(starts) + Len(JavascriptScheme))

RECURSIVE StripHandlers(_, _)
\* value.replace(/on\w+=/gi, "") from index i on
StripHandlers(s, i) ==
    LET starts == {j \in i..Len(s) : HandlerEnd(s, j) # 0}
    IN  IF starts = {} THEN SubSeq(s, i, Len(s))
        ELSE SubSeq(s, i, Least(starts) - 1)
                 \o StripHandlers(s, HandlerEnd(s, Least(starts)) + 1)

\* /<script|javascript:|on\w+=/i.test(val)
InjectionPattern(val) ==
    \E i \in 1..Len(val) :
        \/ MatchAt(val, i, ScriptTag)
        \/ MatchAt(val, i, JavascriptScheme)
        \/ HandlerEnd(val, i) # 0

\* FiveWhysApp.sanitizeInput
sanitizeInput(value) ==
    StripHandlers(StripJavascript(StripTags(value, 1), 1), 1)

\* WhyCard.sanitizeInput
sanitizeInputCard(value) ==
    StripHandlers(StripJavascript(StripTags(value, 1), 1), 1)

(***************************************************************************)
(* The zod schemas: the list of issues of safeParse, in the order zod      *)
(* raises them (the string checks, then the refinement)                    *)
(***************************************************************************)
MinProblemLen == 3

MaxTextLen == 500

null == "null"

\* problemSchema with the length check off by one (min(4))
problemSchema_MinExclusive(val) ==
    (IF Len(val) <= MinProblemLen
        THEN <<"Problem must be at least 3 characters">> ELSE <<>>)
    \o (IF Len(val) > MaxTextLen
        THEN <<"Text too long (max 500 characters)">> ELSE <<>>)
    \o (IF InjectionPattern(val) THEN <<"Invalid content">> ELSE <<>>)

\* problemSchema without its refinement
problemSchema_NoRefine(val) ==
    (IF Len(val) < MinProblemLen
        THEN <<"Problem must be at least 3 characters">> ELSE <<>>)
    \o (IF Len(val) > MaxTextLen
        THEN <<"Text too long (max 500 characters)">> ELSE <<>>)

\* problemSchema.safeParse(val).error.errors
problemSchema(val) ==
    (IF Len(val) < MinProblemLen
        THEN <<"Problem must be at least 3 characters">> ELSE <<>>)
    \o (IF Len(val) > MaxTextLen
        THEN <<"Text too long (max 500 characters)">> ELSE <<>>)
    \o (IF InjectionPattern(val) THEN <<"Invalid content">> ELSE <<>>)

\* inputSchema without its length cap
inputSchema_NoMax(val) ==
    IF InjectionPattern(val) THEN <<"Invalid content">> ELSE <<>>

\* inputSchema without its refinement
inputSchema_NoRefine(val) ==
    IF Len(val) > MaxTextLen
    THEN <<"Text too long (max 500 characters)">> ELSE <<>>

\* inputSchema.safeParse(val).error.errors
inputSchema(val) ==
    (IF Len(val) > MaxTextLen
        THEN <<"Text too long (max 500 characters)">> ELSE <<>>)
    \o (IF InjectionPattern(val) THEN <<"Invalid content">> ELSE <<>>)

\* result.error.errors[0]?.message || "Input error"
FirstMessage(errors) == IF errors # <<>> THEN errors[1] ELSE "Input error"

\* the template literal `Why is "${text}" happening?`
WhyQuestion(text) ==
    <<"W","h","y"," ","i","s"," ","\"">> \o text
        \o <<"\""," ","h","a","p","p","e","n","i","n","g","?">>

(***************************************************************************)
(* The values a change event can carry                                     *)
(***************************************************************************)
Repeat(c, n) == [i \in 1..n |-> c]

\* values typed or pasted into the problem field, in the order they are added
ProblemSamples == <<
    <<"b","u","g">>,
    <<"a","b">>,
    <<"<","s","c","r","i","p","t">>,
    Repeat("a", MaxTextLen + 1),
    Repeat("a", MaxTextLen),
    <<"j","a","v","a","j","a","v","a","s","c","r","i","p","t",":",
      "s","c","r","i","p","t",":">>,
    <<" "," "," ">>,
    <<"<","b",">","n","o","<","/","b",">">>,
    <<"o","o","n","x","=","n","x","=">> >>

\* values typed or pasted into the answer field, in the order they are added
AnswerSamples == <<
    <<"n","o">>,
    <<" ">>,
    <<"<","s","c","r","i","p","t">>,
    Repeat("a", MaxTextLen + 1),
    <<" ","<","i",">","w","h","y","<","/","i",">","\n">>,
    <<"j","a","v","a","j","a","v","a","s","c","r","i","p","t",":",
      "s","c","r","i","p","t",":">>,
    <<"O","N","c","l","i","c","k","=","x">>,
    <<"o","o","n","x","=","n","x","=">>,
    <<>> >>

NumProblemInputs == 7

NumAnswerInputs == 7

Min(a, b) == IF a < b THEN a ELSE b

RawProblemInputs ==
    {ProblemSamples[i] : i \in 1..Min(NumProblemInputs, Len(ProblemSamples))}

RawAnswerInputs ==
    {AnswerSamples[i] : i \in 1..Min(NumAnswerInputs, Len(AnswerSamples))}

Keys == {"Enter", "a"}

(***************************************************************************)
(* State                                                                   *)
(***************************************************************************)
\* useState of a freshly mounted WhyCard
NewCard == [inputValue |-> <<>>, error |-> null]

\* no submit attempt was the last event
NoSubmit ==
    [attempted |-> FALSE, input |-> <<>>, message |-> null, forwarded |-> FALSE,
     value |-> <<>>]

Init ==
    /\ problem = <<>>
    /\ isStarted = FALSE
    /\ whySteps = <<>>
    /\ currentStep = 0
    /\ error = null
    /\ cards = <<>>
    /\ accepted = 0
    /\ lastSubmit = NoSubmit

\* the index in whySteps (from 1) of the card rendered with isActive, or 0
ActiveCard ==
    IF isStarted /\ currentStep + 1 <= Len(whySteps) THEN currentStep + 1 ELSE 0

(***************************************************************************)
(* FiveWhysApp                                                             *)
(***************************************************************************)
\* the problem textarea rendered whether or not the session is started
ProblemChange_AlwaysRendered(sanitized) ==
    /\ problem' = sanitized
    /\ error' = null
    /\ UNCHANGED <<isStarted, whySteps, currentStep, cards, accepted, lastSubmit>>

\* handleProblemChange without setError(null)
ProblemChange_NoClear(sanitized) ==
    /\ ~isStarted
    /\ problem' = sanitized
    /\ UNCHANGED <<error, isStarted, whySteps, currentStep, cards, accepted, lastSubmit>>

\* setProblem(sanitized); setError(null)
ProblemChange(sanitized) ==
    /\ ~isStarted
    /\ problem' = sanitized
    /\ error' = null
    /\ UNCHANGED <<isStarted, whySteps, currentStep, cards, accepted, lastSubmit>>

\* onChange of the problem textarea, rendered while !isStarted
handleProblemChange ==
    \E raw \in RawProblemInputs : ProblemChange(sanitizeInput(raw))

\* startAnalysis without the return after setError
startAnalysis_NoReturn ==
    /\ ~isStarted
    /\ trim(problem) # <<>>
    /\ error' = IF problemSchema(problem) # <<>>
                THEN FirstMessage(problemSchema(problem)) ELSE error
    /\ isStarted' = TRUE
    /\ whySteps' = <<[question |-> WhyQuestion(problem), answer |-> <<>>]>>
    /\ currentStep' = 0
    /\ cards' = <<NewCard>>
    /\ accepted' = 0
    /\ UNCHANGED <<problem, lastSubmit>>

\* onClick of the start button, rendered while !isStarted, disabled={!problem.trim()}
startAnalysis ==
    /\ ~isStarted
    /\ trim(problem) # <<>>
    /\ IF problemSchema(problem) # <<>>
       THEN /\ error' = FirstMessage(problemSchema(problem))
            /\ UNCHANGED <<problem, isStarted, whySteps, currentStep, cards,
                           accepted, lastSubmit>>
       ELSE /\ isStarted' = TRUE
            /\ whySteps' = <<[question |-> WhyQuestion(problem), answer |-> <<>>]>>
            /\ currentStep' = 0
            /\ cards' = <<NewCard>>
            /\ accepted' = 0
            /\ UNCHANGED <<problem, error, lastSubmit>>

\* handleAnswerSubmit that advances the index without creating the next step
handleAnswerSubmit_NoAppend(answer) ==
    LET updatedSteps == [whySteps EXCEPT ![currentStep + 1].answer = answer]
    IN  /\ IF currentStep < 4
           THEN /\ currentStep' = currentStep + 1
                /\ whySteps' = updatedSteps
           ELSE /\ currentStep' = 5
                /\ whySteps' = updatedSteps
        /\ accepted' = accepted + 1

\* handleAnswerSubmit that completes one step early (currentStep < 3)
handleAnswerSubmit_EarlyComplete(answer) ==
    LET updatedSteps == [whySteps EXCEPT ![currentStep + 1].answer = answer]
    IN  /\ IF currentStep < 3
           THEN /\ currentStep' = currentStep + 1
                /\ whySteps' = Append(updatedSteps,
                                   [question |-> WhyQuestion(answer), answer |-> <<>>])
           ELSE /\ currentStep' = 5
                /\ whySteps' = updatedSteps
        /\ accepted' = accepted + 1

\* handleAnswerSubmit that advances the index by two
handleAnswerSubmit_SkipStep(answer) ==
    LET updatedSteps == [whySteps EXCEPT ![currentStep + 1].answer = answer]
    IN  /\ IF currentStep < 4
           THEN /\ currentStep' = currentStep + 2
                /\ whySteps' = Append(updatedSteps,
                                   [question |-> WhyQuestion(answer), answer |-> <<>>])
           ELSE /\ currentStep' = 5
                /\ whySteps' = updatedSteps
        /\ accepted' = accepted + 1

\* handleAnswerSubmit that records the answer on the first step (updatedSteps[0])
handleAnswerSubmit_FirstStep(answer) ==
    LET updatedSteps == [whySteps EXCEPT ![1].answer = answer]
    IN  /\ IF currentStep < 4
           THEN /\ currentStep' = currentStep + 1
                /\ whySteps' = Append(updatedSteps,
                                   [question |-> WhyQuestion(answer), answer |-> <<>>])
           ELSE /\ currentStep' = 5
                /\ whySteps' = updatedSteps
        /\ accepted' = accepted + 1

\* handleAnswerSubmit whose next question embeds the problem, not the answer
handleAnswerSubmit_ProblemQuestion(answer) ==
    LET updatedSteps == [whySteps EXCEPT ![currentStep + 1].answer = answer]
    IN  /\ IF currentStep < 4
           THEN /\ currentStep' = currentStep + 1
                /\ whySteps' = Append(updatedSteps,
                                   [question |-> WhyQuestion(problem), answer |-> <<>>])
           ELSE /\ currentStep' = 5
                /\ whySteps' = updatedSteps
        /\ accepted' = accepted + 1

\* handleAnswerSubmit that does not store the last answer (no setWhySteps on completion)
handleAnswerSubmit_LostLastAnswer(answer) ==
    LET updatedSteps == [whySteps EXCEPT ![currentStep + 1].answer = answer]
    IN  /\ IF currentStep < 4
           THEN /\ currentStep' = currentStep + 1
                /\ whySteps' = Append(updatedSteps,
                                   [question |-> WhyQuestion(answer), answer |-> <<>>])
           ELSE /\ currentStep' = 5
                /\ whySteps' = whySteps
        /\ accepted' = accepted + 1

\* handleAnswerSubmit with the bound off by one (currentStep < 5)
handleAnswerSubmit_OffByOne(answer) ==
    LET updatedSteps == [whySteps EXCEPT ![currentStep + 1].answer = answer]
    IN  /\ IF currentStep < 5
           THEN /\ currentStep' = currentStep + 1
                /\ whySteps' = Append(updatedSteps,
                                   [question |-> WhyQuestion(answer), answer |-> <<>>])
           ELSE /\ currentStep' = 5
                /\ whySteps' = updatedSteps
        /\ accepted' = accepted + 1

\* the controller callback a card calls with an accepted answer
handleAnswerSubmit(answer) ==
    LET updatedSteps == [whySteps EXCEPT ![currentStep + 1].answer = answer]
    IN  /\ IF currentStep < 4
           THEN /\ currentStep' = currentStep + 1
                /\ whySteps' = Append(updatedSteps,
                                   [question |-> WhyQuestion(answer), answer |-> <<>>])
           ELSE /\ currentStep' = 5
                /\ whySteps' = updatedSteps
        /\ accepted' = accepted + 1

\* resetAnalysis without setCurrentStep(0)
resetAnalysis_KeepStep ==
    /\ isStarted
    /\ problem' = <<>>
    /\ isStarted' = FALSE
    /\ whySteps' = <<>>
    /\ currentStep' = currentStep
    /\ error' = null
    /\ cards' = <<>>
    /\ accepted' = 0
    /\ lastSubmit' = NoSubmit

\* resetAnalysis without setWhySteps([])
resetAnalysis_KeepSteps ==
    /\ isStarted
    /\ problem' = <<>>
    /\ isStarted' = FALSE
    /\ whySteps' = whySteps
    /\ currentStep' = 0
    /\ error' = null
    /\ cards' = <<>>
    /\ accepted' = 0
    /\ lastSubmit' = NoSubmit

\* onClick of the reset button, rendered while isStarted; the cards unmount
resetAnalysis ==
    /\ isStarted
    /\ problem' = <<>>
    /\ isStarted' = FALSE
    /\ whySteps' = <<>>
    /\ currentStep' = 0
    /\ error' = null
    /\ cards' = <<>>
    /\ accepted' = 0
    /\ lastSubmit' = NoSubmit

(***************************************************************************)
(* WhyCard (the active card)                                               *)
(***************************************************************************)
\* setInputValue(sanitized); setError(null)
InputChange(sanitized) ==
    /\ ActiveCard # 0
    /\ cards' = [cards EXCEPT ![ActiveCard] =
                    [inputValue |-> sanitized, error |-> null]]
    /\ lastSubmit' = NoSubmit
    /\ UNCHANGED <<problem, isStarted, whySteps, currentStep, error, accepted>>

\* onChange of the answer textarea, rendered while isActive
handleInputChange ==
    \E raw \in RawAnswerInputs : InputChange(sanitizeInputCard(raw))

\* handleSubmit that forwards inputValue without trimming it
handleSubmit_NoTrim ==
    LET inputValue == cards[ActiveCard].inputValue
        errors     == inputSchema(inputValue)
    IN  IF errors # <<>>
        THEN /\ cards' = [cards EXCEPT ![ActiveCard].error = FirstMessage(errors)]
             /\ lastSubmit' = [attempted |-> TRUE, input |-> inputValue,
                               message |-> FirstMessage(errors),
                               forwarded |-> FALSE, value |-> <<>>]
             /\ UNCHANGED <<problem, isStarted, whySteps, currentStep, error, accepted>>
        ELSE IF trim(inputValue) # <<>>
        THEN /\ handleAnswerSubmit(inputValue)
             /\ cards' = LET cleared == [cards EXCEPT ![ActiveCard].inputValue = <<>>]
                         IN  IF Len(whySteps') > Len(cards)
                             THEN Append(cleared, NewCard) ELSE cleared
             /\ lastSubmit' = [attempted |-> TRUE, input |-> inputValue,
                               message |-> null,
                               forwarded |-> TRUE, value |-> inputValue]
             /\ UNCHANGED <<problem, isStarted, error>>
        ELSE /\ lastSubmit' = [attempted |-> TRUE, input |-> inputValue,
                               message |-> null,
                               forwarded |-> FALSE, value |-> <<>>]
             /\ UNCHANGED <<problem, isStarted, whySteps, currentStep, error,
                            cards, accepted>>

\* WhyCard.handleSubmit of the active card; a card React keeps for a new step
\* is mounted in the render that follows
handleSubmit ==
    LET inputValue == cards[ActiveCard].inputValue
        errors     == inputSchema(inputValue)
    IN  IF errors # <<>>
        THEN /\ cards' = [cards EXCEPT ![ActiveCard].error = FirstMessage(errors)]
             /\ lastSubmit' = [attempted |-> TRUE, input |-> inputValue,
                               message |-> FirstMessage(errors),
                               forwarded |-> FALSE, value |-> <<>>]
             /\ UNCHANGED <<problem, isStarted, whySteps, currentStep, error, accepted>>
        ELSE IF trim(inputValue) # <<>>
        THEN /\ handleAnswerSubmit(trim(inputValue))
             /\ cards' = LET cleared == [cards EXCEPT ![ActiveCard].inputValue = <<>>]
                         IN  IF Len(whySteps') > Len(cards)
                             THEN Append(cleared, NewCard) ELSE cleared
             /\ lastSubmit' = [attempted |-> TRUE, input |-> inputValue,
                               message |-> null,
                               forwarded |-> TRUE, value |-> trim(inputValue)]
             /\ UNCHANGED <<problem, isStarted, error>>
        ELSE /\ lastSubmit' = [attempted |-> TRUE, input |-> inputValue,
                               message |-> null,
                               forwarded |-> FALSE, value |-> <<>>]
             /\ UNCHANGED <<problem, isStarted, whySteps, currentStep, error,
                            cards, accepted>>

\* onClick of the card's button, disabled={!inputValue.trim()}
SubmitClick ==
    /\ ActiveCard # 0
    /\ trim(cards[ActiveCard].inputValue) # <<>>
    /\ handleSubmit

\* onKeyDown of the answer textarea
handleKeyDown ==
    /\ ActiveCard # 0
    /\ \E key \in Keys, shiftKey \in BOOLEAN :
           IF key = "Enter" /\ ~shiftKey
           THEN handleSubmit
           ELSE /\ lastSubmit' = NoSubmit
                /\ UNCHANGED <<problem, isStarted, whySteps, currentStep, error,
                               cards, accepted>>

\* {whySteps[4]?.answer} of the completion message
RootCause ==
    IF Len(whySteps) >= 5 THEN whySteps[5].answer ELSE <<"undefined">>

\* the steps (from 1) whose card is rendered with isActive={currentStep === index}
ActiveSteps == {i \in 1..Len(whySteps) : currentStep = i - 1}

Next ==
    \/ handleProblemChange
    \/ startAnalysis
    \/ handleInputChange
    \/ SubmitClick
    \/ handleKeyDown
    \/ resetAnalysis

Spec == Init /\ [][Next]_vars

(***************************************************************************)
(* Properties                                                              *)
(***************************************************************************)
\* the session states of the wizard
Idle == ~isStarted

InProgress == isStarted /\ currentStep <= 4

Completed == isStarted /\ currentStep = 5

\* a text the specification calls valid: 3 to 500 characters, no injection pattern
ValidText(t) ==
    /\ Len(t) >= 3
    /\ Len(t) <= 500
    /\ ~InjectionPattern(t)

\* 'Why is "' + t + '" happening?'
ExpectedQuestion(t) ==
    <<"W","h","y"," ","i","s"," ">> \o <<"\"">> \o t \o <<"\"">>
        \o <<" ","h","a","p","p","e","n","i","n","g","?">>

\* C1: currentStep is always in 0..5, and while the analysis is in progress
\* (isStarted and currentStep <= 4) the number of steps is currentStep + 1.
C1_StepCount ==
    /\ currentStep \in 0..5
    /\ InProgress => Len(whySteps) = currentStep + 1

C1_Witness == InProgress /\ currentStep = 3 /\ Len(whySteps) = 4

\* C2: a started session is Completed exactly when five answers were accepted
\* since its start, and it then has exactly 5 steps; before the fifth accepted
\* answer the index equals the number of accepted answers and is below 5.
C2_FiveAnswersComplete ==
    isStarted =>
        /\ accepted = 5 <=> currentStep = 5
        /\ accepted < 5 => currentStep = accepted
        /\ currentStep = 5 => Len(whySteps) = 5

\* Completed after exactly five accepted answers
C2_Witness ==
    /\ Completed
    /\ accepted = 5
    /\ Len(whySteps) = 5

\* C3: startAnalysis on a valid problem text (3 to 500 characters, no injection
\* pattern) in Idle yields a started session with exactly one step, currentStep 0,
\* an empty answer and the question 'Why is "' + problem + '" happening?'.
C3_StartCreatesOneStep ==
    [][(Idle /\ ValidText(problem) /\ startAnalysis) =>
          /\ isStarted'
          /\ Len(whySteps') = 1
          /\ currentStep' = 0
          /\ whySteps'[1].answer = <<>>
          /\ whySteps'[1].question = ExpectedQuestion(problem)
          /\ problem' = problem]_vars

\* a session just started on a problem text of the maximal length
C3_Witness ==
    /\ isStarted
    /\ Len(problem) = 500
    /\ Len(whySteps) = 1
    /\ currentStep = 0
    /\ whySteps[1].question = ExpectedQuestion(problem)

\* C4: startAnalysis on a problem text that is too short, too long or matches an
\* injection pattern sets a validation message and leaves problem, isStarted,
\* whySteps and currentStep as they were; the session stays Idle.
C4_InvalidStartRejected ==
    [][(Idle /\ ~ValidText(problem) /\ startAnalysis) =>
          /\ error' # null
          /\ ~isStarted'
          /\ UNCHANGED <<problem, isStarted, whySteps, currentStep>>]_vars

\* Idle with a message shown for a sanitized problem text that matches the pattern
C4_Witness ==
    /\ Idle
    /\ error = "Invalid content"
    /\ InjectionPattern(problem)
    /\ whySteps = <<>>

\* C5 (as claimed): no recorded answer is shorter than 3 characters, longer than
\* 500 characters or matches an injection pattern.
C5_AnswersValidatedAsProblem ==
    \A i \in 1..Len(whySteps) :
        whySteps[i].answer # <<>> => ValidText(whySteps[i].answer)

\* C5 (amended): an answer is validated with the maximum length and the content
\* rule of the problem text but without its minimum length: a submitted input
\* longer than 500 characters or matching an injection pattern is rejected with a
\* message, and no recorded answer is longer than 500 characters or matches one.
C5_AnswersCappedAndClean ==
    /\ \A i \in 1..Len(whySteps) :
           /\ Len(whySteps[i].answer) <= 500
           /\ ~InjectionPattern(whySteps[i].answer)
    /\ (lastSubmit.attempted
          /\ (Len(lastSubmit.input) > 500 \/ InjectionPattern(lastSubmit.input)))
       => (lastSubmit.message # null /\ ~lastSubmit.forwarded)

\* an answer of two characters is on a step and a later input was rejected
C5_Witness ==
    /\ \E i \in 1..Len(whySteps) :
           whySteps[i].answer # <<>> /\ Len(whySteps[i].answer) < 3
    /\ lastSubmit.attempted
    /\ Len(lastSubmit.input) > 500
    /\ lastSubmit.message # null

\* a match of <[^>]*>, of javascript: or of on\w+= somewhere in v
HasFragment(v) ==
    \E i \in 1..Len(v) :
        \/ TagEnd(v, i) # 0
        \/ MatchAt(v, i, JavascriptScheme)
        \/ HandlerEnd(v, i) # 0

\* C6: the value the on-change sanitizer stores, in the problem field and in the
\* answer field, contains no HTML tag, no javascript: fragment and no on<word>=
\* fragment.
C6_SanitizedHasNoFragment ==
    /\ ~HasFragment(problem)
    /\ \A i \in 1..Len(cards) : ~HasFragment(cards[i].inputValue)

\* C7: a step that leaves a started session for Idle (reset) ends in the initial
\* state: problem text empty, no steps, currentStep 0, no validation error,
\* no card left.
C7_ResetToInitial ==
    [][(isStarted /\ ~isStarted') =>
          /\ problem' = <<>>
          /\ whySteps' = <<>>
          /\ currentStep' = 0
          /\ error' = null
          /\ cards' = <<>>
          /\ accepted' = 0
          /\ lastSubmit' = NoSubmit]_vars

\* Completed, with reset on offer
C7_Witness == Completed /\ Len(whySteps) = 5 /\ ENABLED resetAnalysis

\* C8: currentStep only moves forward: a step lowers it only by leaving the
\* started session (reset), it rises only by exactly 1 and only when an answer is
\* accepted, and every accepted answer raises it by 1.
C8_StrictlyForward ==
    [][/\ currentStep' < currentStep => (isStarted /\ ~isStarted')
       /\ currentStep' > currentStep =>
              (currentStep' = currentStep + 1 /\ accepted' = accepted + 1)
       /\ accepted' = accepted + 1 => currentStep' = currentStep + 1]_vars

C8_Witness == isStarted /\ currentStep = 2 /\ accepted = 2

\* C9: an answered step keeps its question and its answer in every later state
\* of the session.
C9_AnsweredStepImmutable ==
    [][\A i \in 1..Len(whySteps) :
          (whySteps[i].answer # <<>> /\ isStarted') =>
              (i <= Len(whySteps') /\ whySteps'[i] = whySteps[i])]_vars

\* two answered steps with different answers, and later steps after them
C9_Witness ==
    /\ Len(whySteps) >= 4
    /\ whySteps[1].answer # <<>>
    /\ whySteps[2].answer # <<>>
    /\ whySteps[3].answer # <<>>
    /\ whySteps[1].answer # whySteps[2].answer

\* C10 (as claimed): every submit attempt either sets an error message or
\* forwards the input to the controller.
C10_SubmitRejectedOrForwarded ==
    lastSubmit.attempted => (lastSubmit.message # null \/ lastSubmit.forwarded)

\* C10 (amended): a submit attempt on an input that fails the schema sets an
\* error message on the card and forwards nothing; on an input that passes and
\* is not blank it forwards the trimmed input, which is recorded on the step, and
\* clears the field; on a blank input that passes the schema (Enter on an empty
\* or whitespace-only field) it does nothing and shows no message.
C10_SubmitOutcomes ==
    lastSubmit.attempted =>
        \/ /\ lastSubmit.message # null
           /\ ~lastSubmit.forwarded
           /\ ActiveCard # 0
           /\ cards[ActiveCard].error = lastSubmit.message
           /\ cards[ActiveCard].inputValue = lastSubmit.input
        \/ /\ lastSubmit.message = null
           /\ lastSubmit.forwarded
           /\ lastSubmit.value = trim(lastSubmit.input)
           /\ lastSubmit.value # <<>>
           /\ whySteps[currentStep].answer = lastSubmit.value
           /\ cards[currentStep].inputValue = <<>>
        \/ /\ lastSubmit.message = null
           /\ ~lastSubmit.forwarded
           /\ trim(lastSubmit.input) = <<>>
           /\ Len(lastSubmit.input) <= 500
           /\ ActiveCard # 0
           /\ cards[ActiveCard].error = null

\* an accepted input whose trimmed value differs from what was typed
C10_Witness ==
    /\ lastSubmit.attempted
    /\ lastSubmit.forwarded
    /\ lastSubmit.value # lastSubmit.input
    /\ whySteps[currentStep].answer = lastSubmit.value

(***************************************************************************)
(* The user who keeps trying: a valid text is typed whenever that stays    *)
(* possible, a valid text that can be submitted again and again is         *)
(* eventually submitted, and the user does not reset forever.  The         *)
(* handlers run to completion, one event at a time.                        *)
(***************************************************************************)
\* the sanitized problem texts that enable the start button and pass problemSchema
AcceptableProblems ==
    {v \in {sanitizeInput(raw) : raw \in RawProblemInputs} :
        trim(v) # <<>> /\ problemSchema(v) = <<>>}

\* the sanitized answers that are not blank and pass inputSchema
AcceptableAnswers ==
    {v \in {sanitizeInputCard(raw) : raw \in RawAnswerInputs} :
        trim(v) # <<>> /\ inputSchema(v) = <<>>}

\* a text is typed that the submit of its field will accept
TypeValid ==
    \/ \E v \in AcceptableProblems : ProblemChange(v)
    \/ \E v \in AcceptableAnswers : InputChange(v)

\* a submission is accepted: the session starts, or the wizard moves on a step
SubmitValid ==
    \/ startAnalysis /\ isStarted'
    \/ SubmitClick /\ currentStep' # currentStep

Fairness ==
    /\ WF_vars(TypeValid)
    /\ SF_vars(SubmitValid)
    /\ <>[][~resetAnalysis]_vars

FairSpec == Init /\ [][Next]_vars /\ Fairness

\* a step that surfaces a validation message, of the controller or of a card
RejectionStep ==
    \/ error' # null /\ error' # error
    \/ lastSubmit'.attempted /\ lastSubmit'.message # null /\ lastSubmit' # lastSubmit

\* C11: a rejected problem or answer submission leaves the wizard state
\* (problem, isStarted, whySteps, currentStep) as it was, and with a user who
\* keeps making valid submissions the wizard reaches Completed again and again,
\* from whatever state it is in.
C11_ErrorsNeverBlock ==
    /\ [][RejectionStep =>
             UNCHANGED <<problem, isStarted, whySteps, currentStep, accepted>>]_vars
    /\ []<>Completed

\* an answer was just rejected at the last step, after four accepted ones
C11_Witness ==
    /\ InProgress
    /\ currentStep = 4
    /\ lastSubmit.attempted
    /\ lastSubmit.message # null
    /\ cards[5].error = lastSubmit.message

\* C12: in every started state the problem text and every recorded answer are
\* at most 500 characters long and match no injection pattern, and every
\* recorded answer is non-empty and has no leading or trailing white space.
C12_SessionTextsClean ==
    isStarted =>
        /\ Len(problem) <= 500
        /\ ~InjectionPattern(problem)
        /\ \A i \in 1..Len(whySteps) :
               /\ Len(whySteps[i].answer) <= 500
               /\ ~InjectionPattern(whySteps[i].answer)
               /\ trim(whySteps[i].answer) = whySteps[i].answer
               /\ i <= currentStep => whySteps[i].answer # <<>>

\* the longest problem text, and an answer recorded from an input that had
\* white space around it
C12_Witness ==
    /\ isStarted
    /\ Len(problem) = 500
    /\ currentStep >= 1
    /\ lastSubmit.forwarded
    /\ lastSubmit.input # lastSubmit.value
    /\ whySteps[currentStep].answer = lastSubmit.value

\* C13: step 0's question embeds the problem text, and the question of every
\* later step embeds the answer of the step before it.
C13_AnswerSeedsQuestion ==
    \A i \in 1..Len(whySteps) :
        whySteps[i].question =
            ExpectedQuestion(IF i = 1 THEN problem ELSE whySteps[i-1].answer)

\* five steps whose questions come from different texts
C13_Witness ==
    /\ Len(whySteps) = 5
    /\ whySteps[1].answer # problem
    /\ whySteps[2].answer # whySteps[1].answer
    /\ whySteps[3].answer # whySteps[2].answer
    /\ whySteps[5].question = ExpectedQuestion(whySteps[4].answer)

\* C14: while in progress exactly one step is active, the last one; every
\* earlier step has a non-empty answer and the active step's answer is empty.
\* At Completed no step is active, all five steps have non-empty answers, and
\* the displayed root cause is the fifth step's answer, the last accepted one.
C14_ActiveStepAndRootCause ==
    /\ InProgress =>
           /\ ActiveSteps = {Len(whySteps)}
           /\ ActiveSteps = {currentStep + 1}
           /\ \A i \in 1..(Len(whySteps) - 1) : whySteps[i].answer # <<>>
           /\ whySteps[Len(whySteps)].answer = <<>>
    /\ Completed =>
           /\ ActiveSteps = {}
           /\ Len(whySteps) = 5
           /\ \A i \in 1..5 : whySteps[i].answer # <<>>
           /\ RootCause = whySteps[5].answer
           /\ lastSubmit.forwarded
           /\ RootCause = lastSubmit.value

\* Completed with a root cause that differs from the answer before it
C14_Witness ==
    /\ Completed
    /\ RootCause = lastSubmit.value
    /\ RootCause # whySteps[4].answer

\* C15: an answer is accepted only with currentStep in 0..4 and a step without
\* an answer at that index; at Completed no card is active, no change of a
\* field and no submission is enabled, and reset is.
C15_NoSubmitAfterCompletion ==
    /\ [][accepted' = accepted + 1 =>
             /\ currentStep \in 0..4
             /\ currentStep + 1 <= Len(whySteps)
             /\ whySteps[currentStep + 1].answer = <<>>
             /\ Len(whySteps') <= 5]_vars
    /\ [](Completed =>
             /\ ActiveCard = 0
             /\ ~ENABLED SubmitClick
             /\ ~ENABLED handleKeyDown
             /\ ~ENABLED handleInputChange
             /\ ~ENABLED handleProblemChange
             /\ ~ENABLED startAnalysis
             /\ ENABLED resetAnalysis)

\* Completed right after the fifth accepted answer
C15_Witness ==
    /\ Completed
    /\ accepted = 5
    /\ ActiveCard = 0
    /\ lastSubmit.forwarded

\* C16: isStarted holds exactly when there are steps; in Idle there is no step
\* and currentStep is 0; startAnalysis is enabled only in Idle, and within a
\* started session the step list is never created anew.
C16_StartedIffSteps ==
    /\ [](/\ isStarted <=> whySteps # <<>>
          /\ ~isStarted => (whySteps = <<>> /\ currentStep = 0)
          /\ ENABLED startAnalysis => ~isStarted)
    /\ [][(isStarted /\ isStarted') =>
             /\ Len(whySteps') >= Len(whySteps)
             /\ whySteps'[1].question = whySteps[1].question]_vars

\* a started session with three steps, where start is no longer on offer
C16_Witness ==
    /\ isStarted
    /\ Len(whySteps) = 3
    /\ ~ENABLED startAnalysis

\* C17: from the start of a session until its reset the problem text does not
\* change, the problem field takes no change, and step 0's question embeds the
\* problem text that is displayed.
C17_ProblemFrozen ==
    /\ [][isStarted' => problem' = problem]_vars
    /\ [](isStarted =>
             /\ ~ENABLED handleProblemChange
             /\ whySteps[1].question = ExpectedQuestion(problem))

\* a session well under way on the problem text it was started with
C17_Witness ==
    /\ isStarted
    /\ currentStep = 4
    /\ problem # <<>>
    /\ whySteps[1].question = ExpectedQuestion(problem)

\* C18: whenever the session is started the controller's validation error is null.
C18_StartedWithoutError == isStarted => error = null

\* a session just started, no message shown
C18_Witness == isStarted /\ error = null /\ currentStep = 0 /\ Len(problem) = 500

====
